---- MODULE Spec2Model ----
(***************************************************************************)
(* Model of Helpers/flp_database_connector.py: the upload reconciliation   *)
(* engine (upload_data_to_quant_db, validate_columns,                      *)
(* create_table_from_dataframe, get_sql_columns) and the best-effort drop  *)
(* (delete_table_from_quant_db), run against one table of an external SQL  *)
(* store with per-connection transactions.                                 *)
(***************************************************************************)
EXTENDS Integers, Sequences, FiniteSets, TLC

(***************************************************************************)
(* Bounds of the model.                                                    *)
(***************************************************************************)
\* rows of an uploaded dataframe
MaxRows == 1
\* required columns left out of a generated dataframe
MaxMissing == 1
\* length of the column lists given to validate_columns on its own
MaxLen == 2

(***************************************************************************)
(* Sequence helpers.                                                       *)
(***************************************************************************)
Range(s) == {s[i] : i \in 1..Len(s)}

Contains(s, x) == \E i \in 1..Len(s) : s[i] = x

Reverse(s) == [i \in 1..Len(s) |-> s[Len(s) + 1 - i]]

\* [x for x in s if keep(x)]
RECURSIVE Filter(_, _)
Filter(s, keep) ==
    IF s = <<>> THEN <<>>
    ELSE (IF Head(s) \in keep THEN <<Head(s)>> ELSE <<>>) \o Filter(Tail(s), keep)

SeqsUpTo(S, n) == UNION {[1..k -> S] : k \in 0..n}

(***************************************************************************)
(* __init__: the schema standards.                                         *)
(***************************************************************************)
AuditColumns == <<"update_timestamp", "update_user">>

schema_standards ==
    [pricing |->
        [required_columns |->
            <<"datetime_he", "pricing_location", "wholesale_market", "market_type",
              "service", "price", "unit", "currency", "interval_width_s",
              "update_timestamp", "update_user">>,
         primary_key |->
            <<"datetime_he", "pricing_location", "wholesale_market", "market_type",
              "service">>],
     ops |->
        [required_columns |->
            <<"datetime_he", "asset", "name", "ops_type", "service",
              "da_volume", "rt_volume", "unit", "interval_width_s",
              "update_timestamp", "update_user">>,
         primary_key |->
            <<"datetime_he", "asset", "name", "ops_type", "service">>],
     revenue |->
        [required_columns |->
            <<"datetime_he", "asset", "name", "ops_type", "service",
              "da_revenue", "rt_revenue", "total_revenue", "currency",
              "interval_width_s", "update_timestamp", "update_user">>,
         primary_key |->
            <<"datetime_he", "asset", "name", "ops_type", "service">>]]

\* the schemas line 142 tests for
GovernedSchemas == {"pricing", "ops", "revenue"}

\* primary_key_columns = None
None == <<>>

\* the principal name as typed characters; "\\" is the domain separator
Usernames == {<<"a", "l">>, <<"F", "\\", "a", "l">>}

\* self.username.split('\\')[-1]
RECURSIVE LastSegment(_, _)
LastSegment(s, sep) ==
    IF Contains(s, sep) THEN LastSegment(Tail(s), sep) ELSE s

\* str.lower() on the strings the connector lower-cases (mode, the typed answer)
Lower(s) ==
    CASE s = "Overwrite" -> "overwrite"
      [] s = "Y" -> "y"
      [] OTHER -> s

(***************************************************************************)
(* validate_columns: positional comparison of the dataframe's columns with *)
(* the table's (column_name, data_type) rows.                              *)
(***************************************************************************)
\* the columns compared as sets of names, whatever their positions
validate_columns_AsSets(excel_columns, sql_columns) ==
    LET sql_colnames == [i \in 1..Len(sql_columns) |-> sql_columns[i][1]]
    IN  IF Len(excel_columns) # Len(sql_colnames)
        THEN [kind |-> "SchemaMismatch", what |-> "count",
              excel |-> Len(excel_columns), sql |-> Len(sql_colnames)]
        ELSE IF Range(excel_columns) # Range(sql_colnames)
        THEN [kind |-> "SchemaMismatch", what |-> "name",
              details |-> {[position |-> i, excel |-> excel_columns[i],
                            sql |-> sql_colnames[i]] :
                              i \in {j \in 1..Len(excel_columns) :
                                        excel_columns[j] # sql_colnames[j]}}]
        ELSE [kind |-> "ok"]

\* the comparison stopping at the first position that differs
validate_columns_FirstOnly(excel_columns, sql_columns) ==
    LET sql_colnames == [i \in 1..Len(sql_columns) |-> sql_columns[i][1]]
        mismatched == {i \in 1..Len(excel_columns) :
                          i <= Len(sql_colnames) /\ excel_columns[i] # sql_colnames[i]}
        first == CHOOSE i \in mismatched : \A j \in mismatched : i <= j
    IN  IF Len(excel_columns) # Len(sql_colnames)
        THEN [kind |-> "SchemaMismatch", what |-> "count",
              excel |-> Len(excel_columns), sql |-> Len(sql_colnames)]
        ELSE IF mismatched # {}
        THEN [kind |-> "SchemaMismatch", what |-> "name",
              details |-> {[position |-> first, excel |-> excel_columns[first],
                            sql |-> sql_colnames[first]]}]
        ELSE [kind |-> "ok"]

validate_columns(excel_columns, sql_columns) ==
    LET sql_colnames == [i \in 1..Len(sql_columns) |-> sql_columns[i][1]]
        mismatched == {i \in 1..Len(excel_columns) :
                          i <= Len(sql_colnames) /\ excel_columns[i] # sql_colnames[i]}
    IN  IF Len(excel_columns) # Len(sql_colnames)
        THEN [kind |-> "SchemaMismatch", what |-> "count",
              excel |-> Len(excel_columns), sql |-> Len(sql_colnames)]
        ELSE IF mismatched # {}
        THEN [kind |-> "SchemaMismatch", what |-> "name",
              details |-> {[position |-> i, excel |-> excel_columns[i],
                            sql |-> sql_colnames[i]] : i \in mismatched}]
        ELSE [kind |-> "ok"]

(***************************************************************************)
(* create_table_from_dataframe, up to the statement it hands to the cursor.*)
(***************************************************************************)
dtype_mapping(dtype) ==
    CASE dtype = "object" -> "NVARCHAR(100)"
      [] dtype = "int64" -> "BIGINT"
      [] dtype = "float64" -> "FLOAT"
      [] dtype = "datetime64[ns]" -> "DATETIME"
      [] dtype = "bool" -> "BIT"
      [] OTHER -> "NVARCHAR(100)"

\* the key clause built from the dataframe's columns that are in the key
create_stmt_KeyInFrameOrder(table_name, df, primary_key_columns) ==
    LET columns_sql == [i \in 1..Len(df.columns) |->
                            <<df.columns[i], dtype_mapping(df.dtypes[i])>>]
        absent == {i \in 1..Len(primary_key_columns) :
                      ~Contains(df.columns, primary_key_columns[i])}
        first == CHOOSE i \in absent : \A j \in absent : i <= j
    IN  IF primary_key_columns # None /\ absent # {}
        THEN [kind |-> "InvalidPrimaryKey", column |-> primary_key_columns[first]]
        ELSE [kind |-> "ok", table |-> table_name, columns |-> columns_sql,
              primary_key |-> Filter(df.columns, Range(primary_key_columns))]

create_stmt(table_name, df, primary_key_columns) ==
    LET columns_sql == [i \in 1..Len(df.columns) |->
                            <<df.columns[i], dtype_mapping(df.dtypes[i])>>]
        absent == {i \in 1..Len(primary_key_columns) :
                      ~Contains(df.columns, primary_key_columns[i])}
        first == CHOOSE i \in absent : \A j \in absent : i <= j
    IN  IF primary_key_columns # None /\ absent # {}
        THEN [kind |-> "InvalidPrimaryKey", column |-> primary_key_columns[first]]
        ELSE [kind |-> "ok", table |-> table_name, columns |-> columns_sql,
              primary_key |-> primary_key_columns]

(***************************************************************************)
(* The call arguments the model draws from.                                *)
(***************************************************************************)
\* "<schema>.<table>" after split("."): the three governed schemas, the
\* escape hatch and one schema the connector does not know
Schemas == {"pricing", "ops", "revenue", "dbo", "staging"}

TableNames == {<<s, "T">> : s \in Schemas}

\* 'append', 'overwrite' or 'create'; mode is lower-cased only on line 171
Modes == {"append", "overwrite", "create", "Overwrite"}

\* what the user types at an input() prompt
Answers == {"y", "Y", "n"}

NoAnswer == "-"
NoValue == "-"
NoUser == <<>>

\* the pandas dtype a column of the generated dataframes carries
DtypeOf(col) ==
    CASE col \in {"datetime_he", "update_timestamp"} -> "datetime64[ns]"
      [] col \in {"price", "da_volume", "rt_volume", "da_revenue", "rt_revenue",
                  "total_revenue"} -> "float64"
      [] col = "interval_width_s" -> "int64"
      [] col = "flag" -> "bool"
      [] col = "tag" -> "category"
      [] OTHER -> "object"

\* a dataframe with the given columns; its audit columns, when it has them,
\* were filled by the caller
Frame(cols, n) ==
    [columns |-> cols,
     dtypes |-> [i \in 1..Len(cols) |-> DtypeOf(cols[i])],
     nrows |-> n,
     update_timestamp |-> IF Contains(cols, "update_timestamp") THEN "t0" ELSE NoValue,
     update_user |-> IF Contains(cols, "update_user") THEN <<"b", "o">> ELSE NoUser]

\* the business columns of a standard: its required columns less the audit ones
BusinessColumns(schema) ==
    Filter(schema_standards[schema].required_columns,
           Range(schema_standards[schema].required_columns) \ Range(AuditColumns))

\* column lists built from a standard: up to MaxMissing business columns left
\* out, with or without the audit columns, and the full list reversed
StandardColumnLists(schema) ==
    LET biz == BusinessColumns(schema)
        req == schema_standards[schema].required_columns
        cut == {Filter(biz, Range(biz) \ D) :
                    D \in {X \in SUBSET Range(biz) : Cardinality(X) <= MaxMissing}}
    IN  cut \cup {c \o AuditColumns : c \in cut} \cup {Reverse(req)}

GenericColumnLists ==
    {<<"id", "tag">>, <<"tag", "id">>, <<"id", "flag", "update_timestamp", "update_user">>}

\* the dataframes an upload to the given schema is tried with
ColumnListsFor(schema) ==
    IF schema \in GovernedSchemas
    THEN StandardColumnLists(schema) \cup {<<"id", "tag">>}
    ELSE GenericColumnLists \cup {schema_standards["pricing"].required_columns}

DataFramesFor(schema) ==
    {Frame(cols, n) : cols \in ColumnListsFor(schema), n \in 1..MaxRows}

(***************************************************************************)
(* Step 1 of upload_data_to_quant_db: the audit columns are added to the   *)
(* caller's dataframe when it lacks them.                                  *)
(***************************************************************************)
AddColumn(df, col, dtype) ==
    [df EXCEPT !.columns = Append(df.columns, col), !.dtypes = Append(df.dtypes, dtype)]

\* the timestamp written on every call, over one that is already there
Enrich_AlwaysStamp(df, user, now) ==
    LET d1 == IF ~Contains(df.columns, "update_timestamp")
              THEN [AddColumn(df, "update_timestamp", "datetime64[ns]")
                        EXCEPT !.update_timestamp = now]
              ELSE [df EXCEPT !.update_timestamp = now]
    IN  IF ~Contains(d1.columns, "update_user")
        THEN [AddColumn(d1, "update_user", "object")
                  EXCEPT !.update_user = LastSegment(user, "\\")]
        ELSE d1

Enrich(df, user, now) ==
    LET d1 == IF ~Contains(df.columns, "update_timestamp")
              THEN [AddColumn(df, "update_timestamp", "datetime64[ns]")
                        EXCEPT !.update_timestamp = now]
              ELSE df
    IN  IF ~Contains(d1.columns, "update_user")
        THEN [AddColumn(d1, "update_user", "object")
                  EXCEPT !.update_user = LastSegment(user, "\\")]
        ELSE d1

(***************************************************************************)
(* Step 2: schema and column standards.                                    *)
(***************************************************************************)
\* no required column is ever reported missing
MissingColumns_Unchecked(required, columns) == <<>>

\* only the first required column that is missing
MissingColumns_FirstOnly(required, columns) ==
    LET all == Filter(required, Range(required) \ Range(columns))
    IN  IF all = <<>> THEN <<>> ELSE <<Head(all)>>

\* [col for col in required if col not in df.columns]
MissingColumns(required, columns) == Filter(required, Range(required) \ Range(columns))

\* the escape hatch taken without a word
Standards_SilentDbo(schema, df, check_standards) ==
    IF check_standards
    THEN IF schema \in GovernedSchemas
         THEN LET missing == MissingColumns(schema_standards[schema].required_columns,
                                            df.columns)
              IN  IF missing # <<>>
                  THEN [kind |-> "MissingRequiredColumns", schema |-> schema,
                        missing |-> missing]
                  ELSE [kind |-> "ok", warned |-> FALSE,
                        primary_key_columns |-> schema_standards[schema].primary_key]
         ELSE IF schema = "dbo"
         THEN [kind |-> "ok", warned |-> FALSE, primary_key_columns |-> None]
         ELSE [kind |-> "UnknownSchema", schema |-> schema]
    ELSE [kind |-> "ok", warned |-> FALSE, primary_key_columns |-> None]

\* any schema without a standard taken as the escape hatch
Standards_UnknownAsDbo(schema, df, check_standards) ==
    IF check_standards
    THEN IF schema \in GovernedSchemas
         THEN LET missing == MissingColumns(schema_standards[schema].required_columns,
                                            df.columns)
              IN  IF missing # <<>>
                  THEN [kind |-> "MissingRequiredColumns", schema |-> schema,
                        missing |-> missing]
                  ELSE [kind |-> "ok", warned |-> FALSE,
                        primary_key_columns |-> schema_standards[schema].primary_key]
         ELSE [kind |-> "ok", warned |-> TRUE, primary_key_columns |-> None]
    ELSE [kind |-> "ok", warned |-> FALSE, primary_key_columns |-> None]

Standards(schema, df, check_standards) ==
    IF check_standards
    THEN IF schema \in GovernedSchemas
         THEN LET missing == MissingColumns(schema_standards[schema].required_columns,
                                            df.columns)
              IN  IF missing # <<>>
                  THEN [kind |-> "MissingRequiredColumns", schema |-> schema,
                        missing |-> missing]
                  ELSE [kind |-> "ok", warned |-> FALSE,
                        primary_key_columns |-> schema_standards[schema].primary_key]
         ELSE IF schema = "dbo"
         THEN [kind |-> "ok", warned |-> TRUE, primary_key_columns |-> None]
         ELSE [kind |-> "UnknownSchema", schema |-> schema]
    ELSE [kind |-> "ok", warned |-> FALSE, primary_key_columns |-> None]

(***************************************************************************)
(* Steps 4 and 5: the two places a confirmation may be asked for.  The     *)
(* conditions short-circuit, so input() runs only when nothing before it   *)
(* decided.                                                                *)
(***************************************************************************)
\* input() evaluated before the mode is looked at
CreatePrompted_InCreateMode(mode, skip_prompt) == ~skip_prompt

CreatePrompted(mode, skip_prompt) == ~(mode = "create" \/ skip_prompt)

\* the typed answer used as a truth value instead of being compared with 'y'
CreateAllowed_AnyAnswer(mode, skip_prompt, answer) ==
    mode = "create" \/ skip_prompt \/ answer # ""

CreateAllowed(mode, skip_prompt, answer) ==
    mode = "create" \/ skip_prompt \/ Lower(answer) = "y"

ClearPrompted(mode, skip_prompt) == Lower(mode) = "overwrite" /\ ~skip_prompt

\* the clear decided by the mode alone
ClearAllowed_IgnoreAnswer(mode, skip_prompt, answer) == Lower(mode) = "overwrite"

\* the mode compared without lower-casing it
ClearAllowed_CaseSensitive(mode, skip_prompt, answer) ==
    mode = "overwrite" /\ (skip_prompt \/ Lower(answer) = "y")

ClearAllowed(mode, skip_prompt, answer) ==
    Lower(mode) = "overwrite" /\ (skip_prompt \/ Lower(answer) = "y")

\* line 187: the wording of the completion report
ReportVerb(mode) == IF mode = "append" THEN "appended to" ELSE "written to"

(***************************************************************************)
(* The store: one table, and the tables it may hold when a run begins.     *)
(***************************************************************************)
TableColumns(cols) == create_stmt(<<"dbo", "T">>, Frame(cols, 1), None).columns

ExistingTablesFor(schema) ==
    {<<>>} \cup
    {TableColumns(c) :
        c \in (IF schema \in GovernedSchemas
               THEN {schema_standards[schema].required_columns,
                     Reverse(schema_standards[schema].required_columns)}
               ELSE {schema_standards["pricing"].required_columns})
              \cup {<<"id", "tag", "update_timestamp", "update_user">>,
                    <<"tag", "id", "update_timestamp", "update_user">>}}

(***************************************************************************)
(* State.                                                                  *)
(***************************************************************************)
\* the callers that may run an operation of the connector
Procs == {"u1", "u2"}

VARIABLES
    username,     \* self.username
    table_name,   \* the identifier the operations of this run target, split at "."
    dbCols,       \* committed (column_name, data_type) rows of the table; <<>>: no table
    dbRows,       \* committed number of rows of the table
    pc,           \* where each caller is in its operation
    frame,        \* the arguments and locals of each caller's operation
    conn,         \* each caller's pyodbc connection and cursor
    tx,           \* statements executed on a connection and not yet committed
    log,          \* what each operation did, in order
    result        \* how each operation ended

vars == <<username, table_name, dbCols, dbRows, pc, frame, conn, tx, log, result>>

NoFrame ==
    [op |-> "none", df |-> Frame(<<>>, 0), input |-> Frame(<<>>, 0), mode |-> "-",
     skip_prompt |-> FALSE, check_standards |-> FALSE,
     primary_key_columns |-> None, fetched |-> FALSE, sql_columns |-> <<>>,
     answers |-> <<>>, create_stmt |-> [kind |-> "none"]]

NoConn == [conn |-> "none", cursor |-> "none"]
OpenConn == [conn |-> "open", cursor |-> "open"]
ClosedConn == [conn |-> "closed", cursor |-> "closed"]

NoTx == [create |-> <<>>, delete |-> FALSE, insert |-> 0]

\* conn.commit(): the pending statements take effect in the store
CommittedCols(t) == IF t.create # <<>> THEN t.create ELSE dbCols
CommittedRows(t) == (IF t.delete THEN 0 ELSE dbRows) + t.insert

InitWith(users, tables) ==
    /\ username \in users
    /\ table_name \in tables
    /\ dbCols \in ExistingTablesFor(table_name[1])
    /\ dbRows \in (IF dbCols = <<>> THEN {0} ELSE 0..MaxRows)
    /\ pc = [p \in Procs |-> "Idle"]
    /\ conn = [p \in Procs |-> NoConn]
    /\ tx = [p \in Procs |-> NoTx]
    /\ log = [p \in Procs |-> <<>>]
    /\ result = [p \in Procs |-> [kind |-> "none"]]

Init ==
    /\ InitWith(Usernames, TableNames)
    /\ frame = [p \in Procs |-> NoFrame]

\* an exception leaves the operation: nothing after the raising line runs
Raise(p, err, events) ==
    /\ pc' = [pc EXCEPT ![p] = "Failed"]
    /\ result' = [result EXCEPT ![p] = err]
    /\ log' = [log EXCEPT ![p] = log[p] \o events]

StoreError(stmt) == [kind |-> "ConnectivityFailure", at |-> stmt]

(***************************************************************************)
(* upload_data_to_quant_db                                                 *)
(***************************************************************************)
\* the call and Step 1 (lines 113-137)
UploadEnrich(p) ==
    /\ pc[p] = "Idle"
    /\ \E df \in DataFramesFor(table_name[1]), mode \in Modes,
          skip_prompt \in BOOLEAN, check_standards \in BOOLEAN :
          frame' = [frame EXCEPT ![p] =
                      [NoFrame EXCEPT !.op = "upload", !.input = df,
                                      !.df = Enrich(df, username, "now"),
                                      !.mode = mode, !.skip_prompt = skip_prompt,
                                      !.check_standards = check_standards]]
    /\ pc' = [pc EXCEPT ![p] = "MetadataEnriched"]
    /\ UNCHANGED <<username, table_name, dbCols, dbRows, conn, tx, log, result>>

\* Step 2 (lines 139-154)
UploadStandards(p) ==
    /\ pc[p] = "MetadataEnriched"
    /\ LET r == Standards(table_name[1], frame[p].df, frame[p].check_standards)
       IN  IF r.kind = "ok"
           THEN /\ frame' = [frame EXCEPT ![p].primary_key_columns = r.primary_key_columns]
                /\ log' = [log EXCEPT ![p] = IF r.warned THEN Append(log[p], "warn")
                                                          ELSE log[p]]
                /\ pc' = [pc EXCEPT ![p] = "StandardsChecked"]
                /\ UNCHANGED result
           ELSE /\ Raise(p, r, <<>>)
                /\ UNCHANGED frame
    /\ UNCHANGED <<username, table_name, dbCols, dbRows, conn, tx>>

\* Step 3 and get_sql_columns (lines 156-161, 203-216)
UploadExistence(p) ==
    /\ pc[p] = "StandardsChecked"
    /\ \E connected \in BOOLEAN, fetched \in BOOLEAN :
          IF ~connected
          THEN /\ Raise(p, StoreError("connect"), <<>>)
               /\ UNCHANGED <<frame, conn>>
          ELSE /\ conn' = [conn EXCEPT ![p] = OpenConn]
               /\ IF ~fetched
                  THEN /\ Raise(p, StoreError("query"), <<"connect", "query">>)
                       /\ UNCHANGED frame
                  ELSE /\ frame' = [frame EXCEPT ![p].sql_columns = dbCols,
                                                 ![p].fetched = TRUE]
                       /\ log' = [log EXCEPT ![p] = log[p] \o <<"connect", "query">>]
                       /\ pc' = [pc EXCEPT ![p] = "ExistenceChecked"]
                       /\ UNCHANGED result
    /\ UNCHANGED <<username, table_name, dbCols, dbRows, tx>>

\* the events and the answer record of a prompt that was (or was not) shown
Asked(prompted, what) == IF prompted THEN <<what>> ELSE <<>>
Answered(prompted, what, answer) == IF prompted THEN <<<<what, answer>>>> ELSE <<>>

\* CREATE TABLE (line 263) can succeed only for a name that no table has and
\* that no other connection is creating in a transaction still open; waiting
\* for that transaction is not modelled, the statement fails
Creatable(p) ==
    /\ dbCols = <<>>
    /\ \A q \in Procs \ {p} : tx[q].create = <<>>

\* Step 4 deciding on the table as it is now, not as the existence check saw it
UploadBranch_Rechecks(p) ==
    /\ pc[p] = "ExistenceChecked"
    /\ LET f == [frame[p] EXCEPT !.sql_columns = dbCols]
           prompted == Len(f.sql_columns) < 1 /\ CreatePrompted(f.mode, f.skip_prompt)
           made == create_stmt(table_name, f.df, f.primary_key_columns)
       IN  \E answer \in (IF prompted THEN Answers ELSE {NoAnswer}),
              executed \in (IF Creatable(p) THEN BOOLEAN ELSE {FALSE}) :
             /\ frame' = [frame EXCEPT
                            ![p].answers = f.answers \o Answered(prompted, "create", answer),
                            ![p].create_stmt =
                                IF /\ Len(f.sql_columns) < 1
                                   /\ CreateAllowed(f.mode, f.skip_prompt, answer)
                                   /\ made.kind = "ok"
                                THEN made ELSE f.create_stmt]
             /\ IF Len(f.sql_columns) < 1
                THEN IF CreateAllowed(f.mode, f.skip_prompt, answer)
                     THEN LET stmt == made
                          IN  IF stmt.kind # "ok"
                              THEN /\ Raise(p, stmt, Asked(prompted, "confirm_create"))
                                   /\ UNCHANGED tx
                              ELSE IF ~executed
                              THEN /\ Raise(p, StoreError("create"),
                                            Asked(prompted, "confirm_create") \o <<"create">>)
                                   /\ UNCHANGED tx
                              ELSE /\ tx' = [tx EXCEPT ![p].create = stmt.columns]
                                   /\ log' = [log EXCEPT ![p] = log[p]
                                                \o Asked(prompted, "confirm_create")
                                                \o <<"create">>]
                                   /\ pc' = [pc EXCEPT ![p] = "CreatePath"]
                                   /\ UNCHANGED result
                     ELSE /\ Raise(p, [kind |-> "CreationDeclined"],
                                   Asked(prompted, "confirm_create"))
                          /\ UNCHANGED tx
                ELSE LET r == validate_columns(f.df.columns, f.sql_columns)
                     IN  IF r.kind # "ok"
                         THEN /\ Raise(p, r, <<"validate">>)
                              /\ UNCHANGED tx
                         ELSE /\ log' = [log EXCEPT ![p] = Append(log[p], "validate")]
                              /\ pc' = [pc EXCEPT ![p] = "ValidatePath"]
                              /\ UNCHANGED <<tx, result>>
    /\ UNCHANGED <<username, table_name, dbCols, dbRows, conn>>

\* Step 4 (lines 162-168), with create_table_from_dataframe and validate_columns
UploadBranch(p) ==
    /\ pc[p] = "ExistenceChecked"
    /\ LET f == frame[p]
           prompted == Len(f.sql_columns) < 1 /\ CreatePrompted(f.mode, f.skip_prompt)
           made == create_stmt(table_name, f.df, f.primary_key_columns)
       IN  \E answer \in (IF prompted THEN Answers ELSE {NoAnswer}),
              executed \in (IF Creatable(p) THEN BOOLEAN ELSE {FALSE}) :
             /\ frame' = [frame EXCEPT
                            ![p].answers = f.answers \o Answered(prompted, "create", answer),
                            ![p].create_stmt =
                                IF /\ Len(f.sql_columns) < 1
                                   /\ CreateAllowed(f.mode, f.skip_prompt, answer)
                                   /\ made.kind = "ok"
                                THEN made ELSE f.create_stmt]
             /\ IF Len(f.sql_columns) < 1
                THEN IF CreateAllowed(f.mode, f.skip_prompt, answer)
                     THEN LET stmt == made
                          IN  IF stmt.kind # "ok"
                              THEN /\ Raise(p, stmt, Asked(prompted, "confirm_create"))
                                   /\ UNCHANGED tx
                              ELSE IF ~executed
                              THEN /\ Raise(p, StoreError("create"),
                                            Asked(prompted, "confirm_create") \o <<"create">>)
                                   /\ UNCHANGED tx
                              ELSE /\ tx' = [tx EXCEPT ![p].create = stmt.columns]
                                   /\ log' = [log EXCEPT ![p] = log[p]
                                                \o Asked(prompted, "confirm_create")
                                                \o <<"create">>]
                                   /\ pc' = [pc EXCEPT ![p] = "CreatePath"]
                                   /\ UNCHANGED result
                     ELSE /\ Raise(p, [kind |-> "CreationDeclined"],
                                   Asked(prompted, "confirm_create"))
                          /\ UNCHANGED tx
                ELSE LET r == validate_columns(f.df.columns, f.sql_columns)
                     IN  IF r.kind # "ok"
                         THEN /\ Raise(p, r, <<"validate">>)
                              /\ UNCHANGED tx
                         ELSE /\ log' = [log EXCEPT ![p] = Append(log[p], "validate")]
                              /\ pc' = [pc EXCEPT ![p] = "ValidatePath"]
                              /\ UNCHANGED <<tx, result>>
    /\ UNCHANGED <<username, table_name, dbCols, dbRows, conn>>

\* Step 5 with the DELETE left in the open transaction, to be committed with
\* the insert
UploadClear_NoCommit(p) ==
    /\ pc[p] \in {"CreatePath", "ValidatePath"}
    /\ LET f == frame[p]
           prompted == ClearPrompted(f.mode, f.skip_prompt)
           pending == [tx[p] EXCEPT !.delete = TRUE]
       IN  \E answer \in (IF prompted THEN Answers ELSE {NoAnswer}),
              executed \in BOOLEAN :
             /\ frame' = [frame EXCEPT ![p].answers =
                              f.answers \o Answered(prompted, "overwrite", answer)]
             /\ IF ~ClearAllowed(f.mode, f.skip_prompt, answer)
                THEN /\ log' = [log EXCEPT ![p] = log[p] \o Asked(prompted, "confirm_overwrite")]
                     /\ pc' = [pc EXCEPT ![p] = "ClearedOrSkipped"]
                     /\ UNCHANGED <<tx, result>>
                ELSE IF ~executed
                THEN /\ Raise(p, StoreError("delete"),
                              Asked(prompted, "confirm_overwrite") \o <<"delete">>)
                     /\ UNCHANGED tx
                ELSE /\ tx' = [tx EXCEPT ![p] = pending]
                     /\ log' = [log EXCEPT ![p] = log[p]
                                  \o Asked(prompted, "confirm_overwrite")
                                  \o <<"delete", "print_cleared">>]
                     /\ pc' = [pc EXCEPT ![p] = "ClearedOrSkipped"]
                     /\ UNCHANGED result
    /\ UNCHANGED <<username, table_name, dbCols, dbRows, conn>>

\* Step 5 (lines 170-174)
UploadClear(p) ==
    /\ pc[p] \in {"CreatePath", "ValidatePath"}
    /\ LET f == frame[p]
           prompted == ClearPrompted(f.mode, f.skip_prompt)
           pending == [tx[p] EXCEPT !.delete = TRUE]
       IN  \E answer \in (IF prompted THEN Answers ELSE {NoAnswer}),
              executed \in BOOLEAN, committed \in BOOLEAN :
             /\ frame' = [frame EXCEPT ![p].answers =
                              f.answers \o Answered(prompted, "overwrite", answer)]
             /\ IF ~ClearAllowed(f.mode, f.skip_prompt, answer)
                THEN /\ log' = [log EXCEPT ![p] = log[p] \o Asked(prompted, "confirm_overwrite")]
                     /\ pc' = [pc EXCEPT ![p] = "ClearedOrSkipped"]
                     /\ UNCHANGED <<dbCols, dbRows, tx, result>>
                ELSE IF ~executed
                THEN /\ Raise(p, StoreError("delete"),
                              Asked(prompted, "confirm_overwrite") \o <<"delete">>)
                     /\ UNCHANGED <<dbCols, dbRows, tx>>
                ELSE IF ~committed
                THEN /\ Raise(p, StoreError("commit"),
                              Asked(prompted, "confirm_overwrite") \o <<"delete", "commit">>)
                     /\ tx' = [tx EXCEPT ![p] = pending]
                     /\ UNCHANGED <<dbCols, dbRows>>
                ELSE /\ dbCols' = CommittedCols(pending)
                     /\ dbRows' = CommittedRows(pending)
                     /\ tx' = [tx EXCEPT ![p] = NoTx]
                     /\ log' = [log EXCEPT ![p] = log[p]
                                  \o Asked(prompted, "confirm_overwrite")
                                  \o <<"delete", "print_cleared", "commit">>]
                     /\ pc' = [pc EXCEPT ![p] = "ClearedOrSkipped"]
                     /\ UNCHANGED result
    /\ UNCHANGED <<username, table_name, conn>>

\* the insert running although an earlier step raised
UploadInsert_AfterFailure(p) ==
    /\ pc[p] \in {"ClearedOrSkipped", "Failed"}
    /\ frame[p].op = "upload"
    /\ conn[p].conn = "open"
    /\ tx' = [tx EXCEPT ![p].insert = frame[p].df.nrows]
    /\ log' = [log EXCEPT ![p] = Append(log[p], "insert")]
    /\ pc' = [pc EXCEPT ![p] = "Inserted"]
    /\ UNCHANGED <<username, table_name, dbCols, dbRows, frame, conn, result>>

\* Step 6, up to executemany (lines 176-183)
UploadInsert(p) ==
    /\ pc[p] = "ClearedOrSkipped"
    /\ \E executed \in BOOLEAN :
          IF ~executed
          THEN /\ Raise(p, StoreError("insert"), <<"insert">>)
               /\ UNCHANGED tx
          ELSE /\ tx' = [tx EXCEPT ![p].insert = frame[p].df.nrows]
               /\ log' = [log EXCEPT ![p] = Append(log[p], "insert")]
               /\ pc' = [pc EXCEPT ![p] = "Inserted"]
               /\ UNCHANGED result
    /\ UNCHANGED <<username, table_name, dbCols, dbRows, frame, conn>>

\* a failed commit answered by going back to the insert
UploadCommit_Retry(p) ==
    /\ pc[p] = "Inserted"
    /\ \E committed \in BOOLEAN :
          IF ~committed
          THEN /\ pc' = [pc EXCEPT ![p] = "ClearedOrSkipped"]
               /\ log' = [log EXCEPT ![p] = Append(log[p], "commit")]
               /\ UNCHANGED <<dbCols, dbRows, tx, conn, result>>
          ELSE /\ dbCols' = CommittedCols(tx[p])
               /\ dbRows' = CommittedRows(tx[p])
               /\ tx' = [tx EXCEPT ![p] = NoTx]
               /\ conn' = [conn EXCEPT ![p] = ClosedConn]
               /\ log' = [log EXCEPT ![p] = log[p] \o <<"commit", "close", "print_report">>]
               /\ result' = [result EXCEPT ![p] =
                               [kind |-> "Done", rows |-> frame[p].df.nrows,
                                verb |-> ReportVerb(frame[p].mode)]]
               /\ pc' = [pc EXCEPT ![p] = "Done"]
    /\ UNCHANGED <<username, table_name, frame>>

\* the commit, the two close() calls and the report (lines 184-187)
UploadCommit(p) ==
    /\ pc[p] = "Inserted"
    /\ \E committed \in BOOLEAN :
          IF ~committed
          THEN /\ Raise(p, StoreError("commit"), <<"commit">>)
               /\ UNCHANGED <<dbCols, dbRows, tx, conn>>
          ELSE /\ dbCols' = CommittedCols(tx[p])
               /\ dbRows' = CommittedRows(tx[p])
               /\ tx' = [tx EXCEPT ![p] = NoTx]
               /\ conn' = [conn EXCEPT ![p] = ClosedConn]
               /\ log' = [log EXCEPT ![p] = log[p] \o <<"commit", "close", "print_report">>]
               /\ result' = [result EXCEPT ![p] =
                               [kind |-> "Done", rows |-> frame[p].df.nrows,
                                verb |-> ReportVerb(frame[p].mode)]]
               /\ pc' = [pc EXCEPT ![p] = "Done"]
    /\ UNCHANGED <<username, table_name, frame>>

(***************************************************************************)
(* delete_table_from_quant_db                                              *)
(***************************************************************************)
\* lines 190-191, outside the try
DropConnect(p) ==
    /\ pc[p] = "Idle"
    /\ frame' = [frame EXCEPT ![p] = [NoFrame EXCEPT !.op = "drop"]]
    /\ \E connected \in BOOLEAN :
          IF ~connected
          THEN /\ Raise(p, StoreError("connect"), <<>>)
               /\ UNCHANGED conn
          ELSE /\ conn' = [conn EXCEPT ![p] = OpenConn]
               /\ log' = [log EXCEPT ![p] = Append(log[p], "connect")]
               /\ pc' = [pc EXCEPT ![p] = "DropConnected"]
               /\ UNCHANGED result
    /\ UNCHANGED <<username, table_name, dbCols, dbRows, tx>>

\* the try with its finally but without the except: the error reaches the caller
DropTable_Propagates(p) ==
    /\ pc[p] = "DropConnected"
    /\ \E executed \in (IF dbCols = <<>> THEN {FALSE} ELSE BOOLEAN), committed \in BOOLEAN :
          /\ IF executed /\ committed
             THEN /\ dbCols' = <<>>
                  /\ dbRows' = 0
                  /\ log' = [log EXCEPT ![p] = log[p]
                               \o <<"drop", "commit", "print_deleted", "close">>]
                  /\ result' = [result EXCEPT ![p] =
                                  [kind |-> "Returned", dropped |-> TRUE, error |-> "-"]]
                  /\ pc' = [pc EXCEPT ![p] = "Done"]
             ELSE /\ UNCHANGED <<dbCols, dbRows>>
                  /\ Raise(p, StoreError(IF executed THEN "commit" ELSE "drop"),
                           <<"drop">> \o (IF executed THEN <<"commit">> ELSE <<>>)
                               \o <<"close">>)
          /\ conn' = [conn EXCEPT ![p] = ClosedConn]
    /\ UNCHANGED <<username, table_name, frame, tx>>

\* the try / except / finally of lines 192-200
DropTable(p) ==
    /\ pc[p] = "DropConnected"
    /\ \E executed \in (IF dbCols = <<>> THEN {FALSE} ELSE BOOLEAN), committed \in BOOLEAN :
          /\ IF executed /\ committed
             THEN /\ dbCols' = <<>>
                  /\ dbRows' = 0
                  /\ log' = [log EXCEPT ![p] = log[p]
                               \o <<"drop", "commit", "print_deleted", "close">>]
                  /\ result' = [result EXCEPT ![p] =
                                  [kind |-> "Returned", dropped |-> TRUE, error |-> "-"]]
             ELSE /\ UNCHANGED <<dbCols, dbRows>>
                  /\ log' = [log EXCEPT ![p] = log[p]
                               \o <<"drop">> \o (IF executed THEN <<"commit">> ELSE <<>>)
                               \o <<"print_failed", "close">>]
                  /\ result' = [result EXCEPT ![p] =
                                  [kind |-> "Returned", dropped |-> FALSE,
                                   error |-> IF executed THEN "commit" ELSE "drop"]]
          /\ conn' = [conn EXCEPT ![p] = ClosedConn]
          /\ pc' = [pc EXCEPT ![p] = "Done"]
    /\ UNCHANGED <<username, table_name, frame, tx>>

(***************************************************************************)
(* One caller at a time, as the connector is meant to be used.             *)
(***************************************************************************)
Run(p) ==
    \/ UploadEnrich(p)
    \/ UploadStandards(p)
    \/ UploadExistence(p)
    \/ UploadBranch(p)
    \/ UploadClear(p)
    \/ UploadInsert(p)
    \/ UploadCommit(p)
    \/ DropConnect(p)
    \/ DropTable(p)

Next == Run("u1")

Spec == Init /\ [][Next]_vars

(***************************************************************************)
(* Two callers uploading to the same table, absent when they begin.        *)
(***************************************************************************)
RaceModes == {"append", "create"}

InitRace ==
    /\ InitWith({<<"a", "l">>}, {<<"dbo", "T">>})
    /\ dbCols = <<>>
    /\ frame = [p \in Procs |-> NoFrame]

\* the call, with the same dataframe for both callers
RaceEnrich(p) ==
    /\ UploadEnrich(p)
    /\ frame'[p].input = Frame(<<"id", "tag">>, 1)
    /\ frame'[p].mode \in RaceModes
    /\ ~frame'[p].check_standards

RaceRun(p) ==
    \/ RaceEnrich(p)
    \/ UploadStandards(p)
    \/ UploadExistence(p)
    \/ UploadBranch(p)
    \/ UploadClear(p)
    \/ UploadInsert(p)
    \/ UploadCommit(p)

NextRace == \E p \in Procs : RaceRun(p)

SpecRace == InitRace /\ [][NextRace]_vars

(***************************************************************************)
(* validate_columns called on its own, on column lists of any shape.       *)
(***************************************************************************)
ColumnNames == {"a", "b", "c"}

InitValidate ==
    /\ InitWith({<<"a", "l">>}, {<<"dbo", "T">>})
    /\ dbCols = <<>>
    /\ \E excel_columns \in SeqsUpTo(ColumnNames, MaxLen),
          sql_names \in SeqsUpTo(ColumnNames, MaxLen) :
          frame = [p \in Procs |->
                     IF p = "u1"
                     THEN [NoFrame EXCEPT !.op = "validate_columns",
                                          !.df = Frame(excel_columns, 1),
                                          !.sql_columns = TableColumns(sql_names)]
                     ELSE NoFrame]

ValidateColumns(p) ==
    /\ pc[p] = "Idle"
    /\ frame[p].op = "validate_columns"
    /\ result' = [result EXCEPT ![p] =
                    validate_columns(frame[p].df.columns, frame[p].sql_columns)]
    /\ pc' = [pc EXCEPT ![p] = "Done"]
    /\ UNCHANGED <<username, table_name, dbCols, dbRows, frame, conn, tx, log>>

NextValidate == ValidateColumns("u1")

SpecValidate == InitValidate /\ [][NextValidate]_vars

(***************************************************************************)
(* Step 1 on its own: the same dataframe object handed to two uploads, one *)
(* after the other, is enriched twice.                                     *)
(***************************************************************************)
EnrichColumnNames == {"id", "tag", "update_timestamp", "update_user"}

EnrichUsernames == Usernames \cup {<<"F", "\\", "G", "\\", "a">>}

InitEnrich ==
    /\ InitWith(EnrichUsernames, {<<"dbo", "T">>})
    /\ dbCols = <<>>
    /\ \E cols \in SeqsUpTo(EnrichColumnNames, MaxLen), n \in 1..MaxRows :
          frame = [p \in Procs |->
                     IF p = "u1"
                     THEN [NoFrame EXCEPT !.op = "enrich", !.input = Frame(cols, n),
                                          !.df = Frame(cols, n)]
                     ELSE NoFrame]

EnrichFirst(p) ==
    /\ pc[p] = "Idle"
    /\ frame[p].op = "enrich"
    /\ frame' = [frame EXCEPT ![p].df = Enrich(frame[p].df, username, "now")]
    /\ pc' = [pc EXCEPT ![p] = "MetadataEnriched"]
    /\ UNCHANGED <<username, table_name, dbCols, dbRows, conn, tx, log, result>>

EnrichAgain(p) ==
    /\ pc[p] = "MetadataEnriched"
    /\ frame[p].op = "enrich"
    /\ result' = [result EXCEPT ![p] =
                    [kind |-> "Enriched", df |-> Enrich(frame[p].df, username, "later")]]
    /\ pc' = [pc EXCEPT ![p] = "Done"]
    /\ UNCHANGED <<username, table_name, dbCols, dbRows, frame, conn, tx, log>>

NextEnrich == EnrichFirst("u1") \/ EnrichAgain("u1")

SpecEnrich == InitEnrich /\ [][NextEnrich]_vars

(***************************************************************************)
(* create_table_from_dataframe called on its own, on a cursor of an open   *)
(* connection, with any primary key.                                       *)
(***************************************************************************)
InitCreate ==
    /\ username = <<"a", "l">>
    /\ table_name = <<"dbo", "T">>
    /\ dbCols = <<>>
    /\ dbRows = 0
    /\ pc = [p \in Procs |-> "Idle"]
    /\ conn = [p \in Procs |-> IF p = "u1" THEN OpenConn ELSE NoConn]
    /\ tx = [p \in Procs |-> NoTx]
    /\ log = [p \in Procs |-> <<>>]
    /\ result = [p \in Procs |-> [kind |-> "none"]]
    /\ \E cols \in SeqsUpTo(ColumnNames, MaxLen),
          key \in SeqsUpTo(ColumnNames, MaxLen) :
          frame = [p \in Procs |->
                     IF p = "u1"
                     THEN [NoFrame EXCEPT !.op = "create_table_from_dataframe",
                                          !.df = Frame(cols, 1),
                                          !.primary_key_columns = key]
                     ELSE NoFrame]

CreateTable(p) ==
    /\ pc[p] = "Idle"
    /\ frame[p].op = "create_table_from_dataframe"
    /\ LET stmt == create_stmt(table_name, frame[p].df, frame[p].primary_key_columns)
       IN  IF stmt.kind # "ok"
           THEN /\ Raise(p, stmt, <<>>)
                /\ UNCHANGED <<frame, tx>>
           ELSE /\ frame' = [frame EXCEPT ![p].create_stmt = stmt]
                /\ \E executed \in BOOLEAN :
                      IF ~executed
                      THEN /\ Raise(p, StoreError("create"), <<"create">>)
                           /\ UNCHANGED tx
                      ELSE /\ tx' = [tx EXCEPT ![p].create = stmt.columns]
                           /\ log' = [log EXCEPT ![p] = <<"create", "print_created">>]
                           /\ result' = [result EXCEPT ![p] = stmt]
                           /\ pc' = [pc EXCEPT ![p] = "Done"]
    /\ UNCHANGED <<username, table_name, dbCols, dbRows, conn>>

NextCreate == CreateTable("u1")

SpecCreate == InitCreate /\ [][NextCreate]_vars

(***************************************************************************)
(* Properties.                                                             *)
(***************************************************************************)
Did(p, event) == Contains(log[p], event)

\* event a occurs in the log before event b
DidBefore(p, a, b) ==
    \E i, j \in 1..Len(log[p]) : i < j /\ log[p][i] = a /\ log[p][j] = b

IsUpload(p) == frame[p].op = "upload"

Ended(p) == pc[p] \in {"Done", "Failed"}

\* the existence check of p's upload found no table / found the table
SawAbsent(p) == IsUpload(p) /\ frame[p].fetched /\ frame[p].sql_columns = <<>>
SawPresent(p) == IsUpload(p) /\ frame[p].fetched /\ frame[p].sql_columns # <<>>

\* the user was asked the given question and did not type y or Y
Declined(p, what) ==
    \E i \in 1..Len(frame[p].answers) :
        frame[p].answers[i][1] = what /\ frame[p].answers[i][2] \notin {"y", "Y"}

NeverAsked(p) ==
    /\ frame[p].answers = <<>>
    /\ ~Did(p, "confirm_create")
    /\ ~Did(p, "confirm_overwrite")

ValidationFailures ==
    {"UnknownSchema", "MissingRequiredColumns", "SchemaMismatch", "InvalidPrimaryKey",
     "CreationDeclined"}

\* C1: no operation that has ended, normally or by an exception, leaves a
\* connection it acquired open.
C1_ReleasedOnEveryExit ==
    \A p \in Procs : Ended(p) => conn[p].conn # "open"

\* C2: an upload that ends in a validation failure has issued no bulk insert
\* and holds no inserted row on its connection.
C2_NoInsertOnValidationFailure ==
    \A p \in Procs :
        IsUpload(p) /\ result[p].kind \in ValidationFailures
            => ~Did(p, "insert") /\ tx[p].insert = 0

C2_Witness ==
    \E p \in Procs :
        /\ IsUpload(p) /\ pc[p] = "Failed" /\ Did(p, "query")
        /\ result[p].kind = "SchemaMismatch"

\* C3: table absent, mode not create, force flag unset, creation declined at
\* the prompt: the upload has failed with CreationDeclined and issued no
\* create, no delete-all and no insert.
C3_DeclinedCreationFails ==
    \A p \in Procs :
        /\ SawAbsent(p) /\ frame[p].mode # "create" /\ ~frame[p].skip_prompt
        /\ Declined(p, "create")
        => /\ pc[p] = "Failed"
           /\ result[p].kind = "CreationDeclined"
           /\ ~Did(p, "create") /\ ~Did(p, "delete") /\ ~Did(p, "insert")
           /\ tx[p] = NoTx

C3_Witness ==
    \E p \in Procs :
        /\ SawAbsent(p) /\ frame[p].mode = "append" /\ ~frame[p].skip_prompt
        /\ Declined(p, "create") /\ pc[p] = "Failed"

\* C4 as stated: overwrite of a present table, force flag unset, overwrite
\* declined at the prompt: once the upload has ended it issued no delete-all,
\* it issued the insert, and it ended in Done.
C4_DeclinedOverwriteEndsDone ==
    \A p \in Procs :
        /\ SawPresent(p) /\ Lower(frame[p].mode) = "overwrite" /\ ~frame[p].skip_prompt
        /\ Declined(p, "overwrite") /\ Ended(p)
        => ~Did(p, "delete") /\ Did(p, "insert") /\ pc[p] = "Done"

\* C4 amended: in that upload no delete-all is issued and the table keeps its
\* rows; the insert is still issued, and the upload ends in Done unless the
\* insert or its commit fails at the store.
C4_DeclinedOverwriteStillInserts ==
    \A p \in Procs :
        /\ SawPresent(p) /\ Lower(frame[p].mode) = "overwrite" /\ ~frame[p].skip_prompt
        /\ Declined(p, "overwrite")
        => /\ ~Did(p, "delete") /\ ~tx[p].delete
           /\ pc[p] \in {"ClearedOrSkipped", "Inserted", "Done", "Failed"}
           /\ Ended(p) =>
                /\ Did(p, "insert")
                /\ \/ pc[p] = "Done"
                   \/ /\ result[p].kind = "ConnectivityFailure"
                      /\ result[p].at \in {"insert", "commit"}

C4_Witness ==
    \E p \in Procs :
        /\ SawPresent(p) /\ frame[p].mode = "overwrite" /\ ~frame[p].skip_prompt
        /\ Declined(p, "overwrite") /\ pc[p] = "Done" /\ Did(p, "insert")

\* C5: table absent and mode create: once step 4 has run the create statement
\* was issued, and no confirmation is asked for at any step, whatever the
\* force flag.
C5_CreateModeNeverPrompts ==
    \A p \in Procs :
        SawAbsent(p) /\ frame[p].mode = "create"
            => /\ NeverAsked(p)
               /\ pc[p] # "ExistenceChecked" => Did(p, "create")

C5_Witness ==
    \E p \in Procs :
        /\ SawAbsent(p) /\ frame[p].mode = "create" /\ ~frame[p].skip_prompt
        /\ pc[p] = "Done" /\ Did(p, "create")

\* C6: with the force flag set no confirmation is ever asked for; an absent
\* table gets its create statement in every mode, and an overwrite issues the
\* delete-all, before any insert.
C6_ForceNeverPrompts ==
    \A p \in Procs :
        IsUpload(p) /\ frame[p].skip_prompt
            => /\ NeverAsked(p)
               /\ SawAbsent(p) /\ pc[p] # "ExistenceChecked" => Did(p, "create")
               /\ Lower(frame[p].mode) = "overwrite" =>
                    /\ pc[p] \in {"ClearedOrSkipped", "Inserted", "Done"} => Did(p, "delete")
                    /\ Did(p, "insert") => DidBefore(p, "delete", "insert")

C6_Witness ==
    \E p \in Procs :
        /\ SawAbsent(p) /\ frame[p].skip_prompt /\ frame[p].mode = "Overwrite"
        /\ pc[p] = "Done" /\ DidBefore(p, "create", "delete")
        /\ DidBefore(p, "delete", "insert")

\* the arguments of a direct validate_columns call: D the incoming names, E
\* the names of the existing columns
CallD == frame["u1"].df.columns
CallE == [i \in 1..Len(frame["u1"].sql_columns) |-> frame["u1"].sql_columns[i][1]]
Returned == frame["u1"].op = "validate_columns" /\ pc["u1"] = "Done"

\* the positions at which D and E, of equal length, carry different names
Differing == {i \in 1..Len(CallD) : CallD[i] # CallE[i]}

\* C7: for a non-empty E, validate_columns accepts exactly when D and E have
\* the same length and the same name at every position; a count mismatch is
\* a SchemaMismatch carrying both counts.
C7_AcceptsIffPositionalMatch ==
    Returned /\ Len(CallE) >= 1
        => /\ result["u1"].kind \in {"ok", "SchemaMismatch"}
           /\ result["u1"].kind = "ok"
                <=> /\ Len(CallD) = Len(CallE)
                    /\ \A i \in 1..Len(CallD) : CallD[i] = CallE[i]
           /\ Len(CallD) # Len(CallE)
                => result["u1"] = [kind |-> "SchemaMismatch", what |-> "count",
                                   excel |-> Len(CallD), sql |-> Len(CallE)]

\* a reordering of E's names is rejected
C7_Witness ==
    /\ Returned /\ Len(CallE) = 2 /\ CallE[1] # CallE[2]
    /\ CallD = Reverse(CallE)
    /\ result["u1"].kind = "SchemaMismatch"

\* C8: for D and E of equal length that differ somewhere, the SchemaMismatch
\* lists every differing position, each with both names, and nothing else.
C8_ReportsEveryMismatch ==
    Returned /\ Len(CallD) = Len(CallE) /\ Differing # {}
        => /\ result["u1"].kind = "SchemaMismatch"
           /\ result["u1"].what = "name"
           /\ result["u1"].details =
                {[position |-> i, excel |-> CallD[i], sql |-> CallE[i]] : i \in Differing}

C8_Witness ==
    /\ Returned /\ Len(CallD) = Len(CallE) /\ Cardinality(Differing) >= 2
    /\ Cardinality(result["u1"].details) = Cardinality(Differing)

\* the required columns of p's schema that p's dataframe lacks when step 2 runs
AbsentRequired(p) ==
    {c \in Range(schema_standards[table_name[1]].required_columns) :
        ~Contains(frame[p].df.columns, c)}

StandardsRan(p) == IsUpload(p) /\ pc[p] # "MetadataEnriched"

\* C9: standards enforced on a governed schema: the upload fails with
\* MissingRequiredColumns exactly when a required column is absent, whatever
\* the order of the columns, and the error names each absent required column
\* once and no other column.
C9_MissingRequiredColumns ==
    \A p \in Procs :
        StandardsRan(p) /\ frame[p].check_standards /\ table_name[1] \in GovernedSchemas
            => /\ AbsentRequired(p) # {}
                    => /\ pc[p] = "Failed"
                       /\ result[p].kind = "MissingRequiredColumns"
                       /\ Range(result[p].missing) = AbsentRequired(p)
                       /\ Len(result[p].missing) = Cardinality(AbsentRequired(p))
                       /\ log[p] = <<>>
               /\ AbsentRequired(p) = {} => result[p].kind # "MissingRequiredColumns"

\* the pricing dataset without "currency"
C9_Witness ==
    \E p \in Procs :
        /\ IsUpload(p) /\ frame[p].check_standards /\ table_name[1] = "pricing"
        /\ pc[p] = "Failed"
        /\ result[p].kind = "MissingRequiredColumns"
        /\ result[p].missing = <<"currency">>

\* C10 as stated: every upload to a schema that is neither governed nor dbo
\* is rejected with UnknownSchema and issues no create, delete or insert.
C10_UnknownSchemaRejected ==
    \A p \in Procs :
        StandardsRan(p) /\ table_name[1] \notin GovernedSchemas \cup {"dbo"}
            => /\ pc[p] = "Failed"
               /\ result[p].kind = "UnknownSchema"
               /\ ~Did(p, "create") /\ ~Did(p, "delete") /\ ~Did(p, "insert")

\* C10 amended: every upload with check_standards set to such a schema is
\* rejected with UnknownSchema, before it connects to the store.
C10_UnknownSchemaRejectedWhenChecked ==
    \A p \in Procs :
        /\ StandardsRan(p) /\ frame[p].check_standards
        /\ table_name[1] \notin GovernedSchemas \cup {"dbo"}
        => /\ pc[p] = "Failed"
           /\ result[p].kind = "UnknownSchema"
           /\ ~Did(p, "create") /\ ~Did(p, "delete") /\ ~Did(p, "insert")
           /\ conn[p] = NoConn

C10_Witness ==
    \E p \in Procs :
        /\ IsUpload(p) /\ frame[p].check_standards /\ table_name[1] = "staging"
        /\ pc[p] = "Failed" /\ result[p].kind = "UnknownSchema"

\* how often an event occurs in p's log
Times(p, event) == Cardinality({i \in 1..Len(log[p]) : log[p][i] = event})

\* p's upload neither checked required columns nor derived a primary key
Ungoverned(p) ==
    /\ result[p].kind \notin {"MissingRequiredColumns", "InvalidPrimaryKey"}
    /\ frame[p].primary_key_columns = None
    /\ frame[p].create_stmt.kind = "ok" => frame[p].create_stmt.primary_key = None

\* C11 as stated: every upload to dbo warns, and neither validates required
\* columns nor derives a primary key.
C11_DboAlwaysWarns ==
    \A p \in Procs :
        StandardsRan(p) /\ table_name[1] = "dbo"
            => Did(p, "warn") /\ Ungoverned(p)

\* C11 amended: an upload to dbo with check_standards set calls warnings.warn
\* once, on every such call; with or without check_standards an upload to
\* dbo neither validates required columns nor derives a primary key.
C11_DboWarnsWhenChecked ==
    \A p \in Procs :
        StandardsRan(p) /\ table_name[1] = "dbo"
            => /\ frame[p].check_standards => Times(p, "warn") = 1
               /\ result[p].kind # "UnknownSchema"
               /\ Ungoverned(p)

C11_Witness ==
    \E p \in Procs :
        /\ IsUpload(p) /\ table_name[1] = "dbo" /\ frame[p].check_standards
        /\ pc[p] = "Done" /\ DidBefore(p, "warn", "create")
        /\ frame[p].create_stmt.primary_key = None

\* C12: a Drop whose DROP TABLE statement fails reports the failure and
\* returns normally, commits nothing, leaves the store as it was and has
\* closed its cursor and its connection; no Drop that got its connection ends
\* by raising.
C12_DropIsBestEffort ==
    \A p \in Procs :
        frame[p].op = "drop" /\ Did(p, "drop")
            => /\ pc[p] = "Done"
               /\ result[p].kind = "Returned"
               /\ conn[p] = ClosedConn
               /\ result[p].error = "drop"
                    => /\ ~result[p].dropped
                       /\ Did(p, "print_failed") /\ ~Did(p, "print_deleted")
                       /\ ~Did(p, "commit")
                       /\ tx[p] = NoTx

\* the table does not exist
C12_Witness ==
    \E p \in Procs :
        /\ frame[p].op = "drop" /\ dbCols = <<>>
        /\ pc[p] = "Done" /\ result[p].error = "drop"
        /\ Did(p, "print_failed")

\* s is what is left of the principal name u after its last domain separator
IsStripped(u, s) ==
    \E k \in 0..Len(u) :
        /\ s = SubSeq(u, k + 1, Len(u))
        /\ ~Contains(s, "\\")
        /\ k = 0 \/ u[k] = "\\"

\* e is d with the audit columns d lacked appended, stamped with the time t
\* and the stripped principal name, and with nothing else changed
EnrichedFrom(d, e, t) ==
    LET hasT == Contains(d.columns, "update_timestamp")
        hasU == Contains(d.columns, "update_user")
        added == (IF hasT THEN <<>> ELSE <<"update_timestamp">>)
                    \o (IF hasU THEN <<>> ELSE <<"update_user">>)
    IN  /\ e.columns = d.columns \o added
        /\ SubSeq(e.dtypes, 1, Len(d.dtypes)) = d.dtypes
        /\ e.nrows = d.nrows
        /\ e.update_timestamp = (IF hasT THEN d.update_timestamp ELSE t)
        /\ IF hasU THEN e.update_user = d.update_user
                   ELSE IsStripped(username, e.update_user)

\* C13: Enrich adds update_timestamp only when that column is absent and
\* update_user only when absent (the principal name without its domain), and
\* changes nothing else; enriching the enriched dataframe again, later,
\* returns it unchanged.
C13_EnrichIdempotent ==
    frame["u1"].op = "enrich" /\ pc["u1"] # "Idle"
        => /\ EnrichedFrom(frame["u1"].input, frame["u1"].df, "now")
           /\ pc["u1"] = "Done" => result["u1"].df = frame["u1"].df

\* a dataframe without audit columns, a principal name with a domain
C13_Witness ==
    /\ frame["u1"].op = "enrich" /\ pc["u1"] = "Done"
    /\ frame["u1"].input.columns = <<"id", "tag">>
    /\ Contains(username, "\\")
    /\ result["u1"].df.columns = <<"id", "tag", "update_timestamp", "update_user">>
    /\ result["u1"].df.update_timestamp = "now"

\* the arguments of a direct create_table_from_dataframe call
CallKey == frame["u1"].primary_key_columns
CallColumns == frame["u1"].df.columns
Created == frame["u1"].op = "create_table_from_dataframe" /\ pc["u1"] # "Idle"

\* the positions of the key whose column the dataframe lacks
AbsentKey == {i \in 1..Len(CallKey) : CallKey[i] \notin Range(CallColumns)}

\* C14: given a primary key whose columns are all in the dataframe, the
\* create statement is handed to the cursor with a primary-key clause listing
\* exactly the given columns in the given order; when a key column is absent
\* the call fails with InvalidPrimaryKey naming the first absent key column
\* and no create statement is executed.
C14_PrimaryKeyClause ==
    Created /\ CallKey # <<>>
        => /\ AbsentKey = {}
                => /\ Did("u1", "create")
                   /\ frame["u1"].create_stmt.kind = "ok"
                   /\ frame["u1"].create_stmt.primary_key = CallKey
                   /\ [i \in 1..Len(CallColumns) |-> frame["u1"].create_stmt.columns[i][1]]
                        = CallColumns
           /\ AbsentKey # {}
                => /\ pc["u1"] = "Failed"
                   /\ result["u1"].kind = "InvalidPrimaryKey"
                   /\ \E i \in AbsentKey :
                        /\ result["u1"].column = CallKey[i]
                        /\ \A j \in AbsentKey : i <= j
                   /\ ~Did("u1", "create")
                   /\ tx["u1"] = NoTx
                   /\ frame["u1"].create_stmt.kind = "none"

\* a two-column key given in the order opposite to the dataframe's
C14_Witness ==
    /\ Created /\ pc["u1"] = "Done"
    /\ Len(CallKey) = 2 /\ CallKey[1] # CallKey[2]
    /\ CallColumns = Reverse(CallKey)
    /\ result["u1"].primary_key = CallKey

\* C15: a completed upload reports the dataframe's row count, and reports an
\* append exactly when it did not clear the table's rows (an overwrite-style
\* write exactly when it issued the delete-all).
C15_ReportsWhatHappened ==
    \A p \in Procs :
        IsUpload(p) /\ pc[p] = "Done"
            => /\ result[p].rows = frame[p].df.nrows
               /\ result[p].verb = "appended to" <=> ~Did(p, "delete")

\* the moves of an upload between the states of the specification's machine
UploadEdges ==
    {<<"Idle", "MetadataEnriched">>,
     <<"MetadataEnriched", "StandardsChecked">>,
     <<"StandardsChecked", "ExistenceChecked">>,
     <<"ExistenceChecked", "CreatePath">>,
     <<"ExistenceChecked", "ValidatePath">>,
     <<"CreatePath", "ClearedOrSkipped">>,
     <<"ValidatePath", "ClearedOrSkipped">>,
     <<"ClearedOrSkipped", "Inserted">>,
     <<"Inserted", "Done">>}
    \cup {<<from, "Failed">> :
            from \in {"MetadataEnriched", "StandardsChecked", "ExistenceChecked",
                      "CreatePath", "ValidatePath", "ClearedOrSkipped", "Inserted"}}

\* a step of p's upload follows an edge, and takes the create path only with
\* the table absent, the validate path only with the table present
UploadStep(p) ==
    frame'[p].op = "upload" /\ pc'[p] # pc[p]
        => /\ <<pc[p], pc'[p]>> \in UploadEdges
           /\ pc'[p] = "CreatePath" => SawAbsent(p) /\ Did(p, "create")'
           /\ pc'[p] = "ValidatePath" => SawPresent(p) /\ Did(p, "validate")'

\* the columns Enrich gives a dataframe with columns cols
EnrichedColumns(cols) ==
    cols \o (IF Contains(cols, "update_timestamp") THEN <<>> ELSE <<"update_timestamp">>)
         \o (IF Contains(cols, "update_user") THEN <<>> ELSE <<"update_user">>)

\* what p's upload has issued so far: each statement at most once, create
\* and validation never both, and the validation on the enriched columns
UploadOnce(p) ==
    IsUpload(p)
        => /\ \A e \in {"query", "create", "validate", "delete", "insert"} : Times(p, e) <= 1
           /\ ~(Did(p, "create") /\ Did(p, "validate"))
           /\ pc[p] = "Done"
                => /\ Did(p, "create") \/ Did(p, "validate")
                   /\ \/ DidBefore(p, "query", "create")
                      \/ DidBefore(p, "query", "validate")
                   /\ \/ DidBefore(p, "create", "insert")
                      \/ DidBefore(p, "validate", "insert")
                   /\ Did(p, "delete")
                        => /\ DidBefore(p, "delete", "insert")
                           /\ \/ DidBefore(p, "create", "delete")
                              \/ DidBefore(p, "validate", "delete")
           /\ Did(p, "validate") /\ result[p].kind # "SchemaMismatch"
                => [i \in 1..Len(frame[p].sql_columns) |-> frame[p].sql_columns[i][1]]
                        = EnrichedColumns(frame[p].input.columns)
           /\ result[p].kind = "SchemaMismatch" /\ result[p].what = "count"
                => result[p].excel = Len(EnrichedColumns(frame[p].input.columns))

\* C16: an upload moves through Start, MetadataEnriched, StandardsChecked,
\* ExistenceChecked, then CreatePath (table absent) or ValidatePath (table
\* present), then ClearedOrSkipped, Inserted and Done, leaving this line only
\* to fail; it issues the existence check, the create, the delete-all and the
\* insert at most once each, never both creates and validates, and validates
\* the enriched dataframe's columns.
C16_LinearPath ==
    /\ [][\A p \in Procs : UploadStep(p)]_vars
    /\ [](\A p \in Procs : UploadOnce(p))

\* an upload that appended to a table it validated, given a dataframe without
\* the audit columns
C16_Witness ==
    \E p \in Procs :
        /\ IsUpload(p) /\ pc[p] = "Done"
        /\ Did(p, "validate") /\ ~Did(p, "create")
        /\ frame[p].input.columns # frame[p].df.columns

\* C17: two uploads to the same table race between check and create: a caller
\* whose existence check found no table, and who is not refused by the prompt
\* or the primary key, issues the CREATE without looking again, whatever the
\* other caller has done to the table since; nothing is locked or rechecked.
C17_CheckThenCreate ==
    /\ [][\A p \in Procs :
            /\ pc[p] = "ExistenceChecked" /\ pc'[p] # pc[p]
            /\ SawAbsent(p)
            /\ result'[p].kind \notin {"CreationDeclined", "InvalidPrimaryKey"}
            => Did(p, "create")' /\ ~Did(p, "validate")' /\ Times(p, "query")' = 1]_vars
    /\ [](\A p \in Procs : Did(p, "create") => SawAbsent(p))

\* both callers saw the table absent and both issued the CREATE, the second
\* against the table the first had committed
C17_Witness ==
    \E p, q \in Procs :
        /\ p # q
        /\ SawAbsent(p) /\ SawAbsent(q)
        /\ Did(p, "create") /\ Did(q, "create")
        /\ pc[p] = "Done" /\ dbCols # <<>>
        /\ result[q] = StoreError("create")

\* p's upload failed at the insert or at the commit that follows it
FailedAfterClear(p) ==
    /\ IsUpload(p) /\ pc[p] = "Failed"
    /\ Did(p, "insert")
    /\ result[p] \in {StoreError("insert"), StoreError("commit")}

\* C18: overwrite is not atomic. An upload that issued the delete-all and then
\* the insert had the delete committed in between; when the insert (or the
\* final commit) then fails, the table is left committed with no rows: its
\* earlier rows are gone and none of the dataframe's rows are in.
C18_OverwriteNotAtomic ==
    \A p \in Procs :
        IsUpload(p) /\ Did(p, "delete") /\ Did(p, "insert")
            => /\ DidBefore(p, "delete", "commit")
               /\ DidBefore(p, "commit", "insert")
               /\ ~tx[p].delete
               /\ pc[p] # "Done" => dbRows = 0
               /\ FailedAfterClear(p) => dbRows = 0 /\ dbCols # <<>>

\* the insert failed after the rows of an existing table were deleted
C18_Witness ==
    \E p \in Procs :
        /\ FailedAfterClear(p) /\ result[p] = StoreError("insert")
        /\ Did(p, "delete") /\ SawPresent(p)
        /\ dbRows = 0

\* p's upload enforces the standard of a governed schema
Governed(p) ==
    IsUpload(p) /\ frame[p].check_standards /\ table_name[1] \in GovernedSchemas

\* C19: an upload that enforces the standard of a governed schema never fails
\* with InvalidPrimaryKey: the primary key of every standard lies within its
\* required columns, and past the standards check the dataframe has them all,
\* so the key handed to the create path names columns of the dataframe only.
C19_GovernedKeyIsValid ==
    /\ \A s \in GovernedSchemas :
          Range(schema_standards[s].primary_key)
              \subseteq Range(schema_standards[s].required_columns)
    /\ \A p \in Procs :
          Governed(p)
              => /\ result[p].kind # "InvalidPrimaryKey"
                 /\ pc[p] \notin {"Idle", "MetadataEnriched"}
                    /\ result[p].kind # "MissingRequiredColumns"
                      => /\ frame[p].primary_key_columns
                                = schema_standards[table_name[1]].primary_key
                         /\ Range(frame[p].primary_key_columns)
                                \subseteq Range(frame[p].df.columns)
                 /\ Did(p, "create")
                      => frame[p].create_stmt.primary_key
                            = schema_standards[table_name[1]].primary_key

\* a governed upload created its table with the standard's primary key
C19_Witness ==
    \E p \in Procs :
        /\ Governed(p) /\ SawAbsent(p)
        /\ pc[p] = "CreatePath"
        /\ frame[p].create_stmt.kind = "ok"
        /\ frame[p].create_stmt.primary_key # <<>>

====
